---- MODULE Spec2Model ----
(***************************************************************************)
(* Model of the data-profiling core of the data-visualization dashboards:  *)
(* column classification (infer_column_types) and the pairwise-deletion    *)
(* correlation matrix (create_correlation_matrix) of eda_dashboard.py.     *)
(*                                                                         *)
(* A table (pandas DataFrame) is a sequence of columns; a column is a      *)
(* record [name, kind, vals] whose vals hold one cell per row.  Cells are   *)
(* small naturals, NULL stands for a missing cell (NaN / None).            *)
(*                                                                         *)
(* Correlations are computed in binary floating point, rounding to nearest *)
(* (ties to even) after every operation as numpy does; the significand has *)
(* Prec bits (IEEE double has 53), so that "exactly equal" is a property    *)
(* the model can refute.                                                   *)
(***************************************************************************)
EXTENDS Integers, Sequences, FiniteSets, TLC

VARIABLES
    df,             \* the stored table (eda-df-store)
    nunique_raises, \* names of the columns on which Series.nunique raises
    method,         \* correlation method of the last request
    cat_threshold,  \* cat_threshold argument of the last classification
    pc,             \* "idle", "correlated" or "classified"
    corr_outcome,   \* "none", "returned" or "raised": how the request ended
    corr_matrix,    \* the value create_correlation_matrix returned
    valid_data,     \* per cell <<i, j>>: the two vectors fed to the statistic
    numeric,        \* numeric list returned by infer_column_types
    categorical,    \* categorical list returned by infer_column_types
    plot_type,      \* value of the eda-plot-type dropdown
    x_opts,         \* options of eda-plot-x-column (the values, in order)
    y_opts,         \* options of eda-plot-y-column
    color_opts,     \* options of eda-plot-color-column
    size_opts,      \* options of eda-plot-size-column
    x_value,        \* value of eda-plot-x-column
    y_value,        \* value of eda-plot-y-column
    color_value,    \* value of eda-plot-color-column
    size_value,     \* value of eda-plot-size-column
    figure,         \* figure of eda-plot-graph
    callback_outcome, \* "none", "returned" or "raised": how the last callback ended
    updatemenus,    \* per dimension, the buttons make_scatter_with_dropdowns built
    scatter_outcome, \* "none", "returned" or "raised": how that call ended
    trace,          \* the base trace of that figure and its axis titles
    active,         \* per dimension, the position of the button marked active
    inspector_column, \* the column picked in the inspector dropdown, or NoValue
    inspector_stats,  \* the panel eda_update_inspector_stats returned
    app,            \* "eda" (eda_dashboard.py) or "dash" (dash_plotter.py)
    uploads,        \* the contents the upload component has delivered so far
    upload_status,  \* "none", "example", "loaded" or "failed": the message shown
    callbacks,      \* per callback of the EDA dashboard: idle, requested or
                    \* executing, and the argument values it is executing with
    heatmap_labels  \* the axis labels of the correlation heatmap

tableVars == <<df, nunique_raises>>
corrVars == <<method, corr_outcome, corr_matrix, valid_data>>
inferVars == <<cat_threshold, numeric, categorical>>

optionVars == <<x_opts, y_opts, color_opts, size_opts>>
valueVars == <<x_value, y_value, color_value, size_value>>

figureVars == <<figure, callback_outcome>>

scatterVars == <<updatemenus, scatter_outcome, trace, active>>

inspectVars == <<inspector_column, inspector_stats>>

uploadVars == <<app, uploads, upload_status>>

chainVars == <<callbacks, heatmap_labels>>

vars == <<tableVars, pc, corrVars, inferVars, plot_type, optionVars, valueVars,
          figureVars, scatterVars, inspectVars, uploadVars, chainVars>>

(***************************************************************************)
(* Bounds of the model                                                     *)
(***************************************************************************)
\* significand bits of the modelled floating point
Prec == 9
\* a table has at most MaxCols columns ...
MaxCols == 3
\* ... and at most MaxCells cells (rows * columns)
MaxCells == 6
\* cells of the tables are NULL or 0..MaxVal; the cell k of a float column
\* stands for the decimal k / 10
MaxVal == 1
\* cells of the two-column tables of SpecPair are NULL or 0..MaxValPair
MaxValPair == 3
\* the tables of SpecInfer have at most MaxCellsInfer cells
MaxCellsInfer == 4
\* infer_column_types is called with cat_threshold in 0..MaxThreshold
MaxThreshold == 2
\* the tables behind the plot controls have at most MaxColsDash columns
MaxColsDash == 2
\* the tables eda_update_plot is run on have at most MaxCellsPlot cells
MaxCellsPlot == 2
\* the tables make_scatter_with_dropdowns is run on have at most MaxCellsSize
\* cells, which are NULL or 0..MaxValSize
MaxCellsSize == 3
MaxValSize == 2
\* the inspector is run on tables of at most MaxCellsInspect cells, which are
\* NULL or 0..MaxValInspect, and on one-column tables of about TopN distinct
\* values followed by at most MaxTail further cells
MaxCellsInspect == 4
MaxValInspect == 2
MaxTail == 2
\* an uploaded table has at most MaxColsUpload columns, and at most MaxUploads
\* uploads arrive
MaxColsUpload == 1
MaxUploads == 2
\* at most MaxChainUploads files are uploaded while the callbacks of the stores
\* are observed
MaxChainUploads == 2

NULL == -1

(***************************************************************************)
(* Sequence helpers                                                        *)
(***************************************************************************)
Range(s) == {s[k] : k \in DOMAIN s}

\* the subsequence of s at the positions satisfying Keep, in order
RECURSIVE SelectPos(_, _, _)
SelectPos(s, Keep, k) ==
    IF k > Len(s) THEN <<>>
    ELSE IF Keep[k] THEN <<s[k]>> \o SelectPos(s, Keep, k + 1)
    ELSE SelectPos(s, Keep, k + 1)

RECURSIVE Pow2(_)
Pow2(k) == IF k <= 0 THEN 1 ELSE 2 * Pow2(k - 1)

Abs(n) == IF n < 0 THEN -n ELSE n
Sgn(n) == IF n < 0 THEN -1 ELSE IF n > 0 THEN 1 ELSE 0

(***************************************************************************)
(* Floating point: a finite number is <<m, e>> = m * 2^e, normalised so    *)
(* that m = 0 /\ e = 0 or 2^(Prec-1) <= |m| < 2^Prec.                       *)
(***************************************************************************)
Zero == <<0, 0>>
NaN == <<0, 1>>
PosInf == <<1, 0>>
NegInf == <<-1, 0>>

IsNaN(x) == x = NaN
IsInf(x) == x = PosInf \/ x = NegInf
IsFinite(x) == ~IsNaN(x) /\ ~IsInf(x)

\* significands lie in SigLo .. SigHi - 1
SigLo == Pow2(Prec - 1)
SigHi == Pow2(Prec)

\* (n / d) * 2^e for naturals n, d > 0, rounded to Prec bits, ties to even;
\* the quotient is first scaled into SigLo .. SigHi - 1 (16-fold, then 2-fold)
RECURSIVE RoundPos(_, _, _)
RoundPos(n, d, e) ==
    IF n = 0 THEN Zero
    ELSE IF n >= 16 * d * SigHi THEN RoundPos(n, 16 * d, e + 4)
    ELSE IF n >= d * SigHi THEN RoundPos(n, 2 * d, e + 1)
    ELSE IF 16 * n < d * SigLo THEN RoundPos(16 * n, d, e - 4)
    ELSE IF n < d * SigLo THEN RoundPos(2 * n, d, e - 1)
    ELSE LET q == n \div d
             r == n % d
             up == 2 * r > d \/ (2 * r = d /\ q % 2 = 1)
             m == IF up THEN q + 1 ELSE q
         IN  IF m = SigHi THEN <<SigLo, e + 1>> ELSE <<m, e>>

Signed(s, x) == IF s < 0 THEN <<-x[1], x[2]>> ELSE x

FromInt(k) == Signed(k, RoundPos(Abs(k), 1, 0))
One == FromInt(1)
MinusOne == FromInt(-1)

FNeg(x) == IF IsNaN(x) THEN NaN ELSE <<-x[1], x[2]>>

FMul(x, y) ==
    IF IsNaN(x) \/ IsNaN(y) THEN NaN
    ELSE IF IsInf(x) \/ IsInf(y)
         THEN (IF x = Zero \/ y = Zero THEN NaN
               ELSE IF x[1] * y[1] < 0 THEN NegInf ELSE PosInf)
    ELSE Signed(x[1] * y[1], RoundPos(Abs(x[1] * y[1]), 1, x[2] + y[2]))

FDiv(x, y) ==
    IF IsNaN(x) \/ IsNaN(y) THEN NaN
    ELSE IF IsInf(x) THEN (IF IsInf(y) THEN NaN
                           ELSE IF x[1] * Sgn(y[1]) < 0 THEN NegInf ELSE PosInf)
    ELSE IF IsInf(y) THEN Zero
    ELSE IF y = Zero THEN (IF x = Zero THEN NaN
                           ELSE IF x[1] < 0 THEN NegInf ELSE PosInf)
    ELSE Signed(x[1] * y[1], RoundPos(Abs(x[1]), Abs(y[1]), x[2] - y[2]))

\* x + y; an operand below a quarter of the other's last place cannot change it
FAdd(x, y) ==
    IF IsNaN(x) \/ IsNaN(y) THEN NaN
    ELSE IF IsInf(x) THEN (IF IsInf(y) /\ x /= y THEN NaN ELSE x)
    ELSE IF IsInf(y) THEN y
    ELSE IF x = Zero THEN y
    ELSE IF y = Zero THEN x
    ELSE IF x[2] - y[2] > Prec + 2 THEN x
    ELSE IF y[2] - x[2] > Prec + 2 THEN y
    ELSE LET e == IF x[2] < y[2] THEN x[2] ELSE y[2]
             n == x[1] * Pow2(x[2] - e) + y[1] * Pow2(y[2] - e)
         IN  Signed(n, RoundPos(Abs(n), 1, e))

FSub(x, y) == FAdd(x, FNeg(y))

RECURSIVE ISqrt(_)
ISqrt(n) ==
    IF n < 2 THEN n
    ELSE LET s == 2 * ISqrt(n \div 4)
         IN  IF (s + 1) * (s + 1) <= n THEN s + 1 ELSE s

\* sqrt(n * 2^e) for a natural n > 0, rounded to nearest
RECURSIVE SqrtPos(_, _)
SqrtPos(n, e) ==
    IF e % 2 /= 0 THEN SqrtPos(2 * n, e - 1)
    ELSE IF n < SigLo * SigLo THEN SqrtPos(4 * n, e - 2)
    ELSE LET q == ISqrt(n)
             m == IF n > q * q + q THEN q + 1 ELSE q
         IN  IF m = SigHi THEN <<SigLo, (e \div 2) + 1>>
             ELSE <<m, e \div 2>>

FSqrt(x) ==
    IF IsNaN(x) \/ x = NegInf THEN NaN
    ELSE IF x = PosInf THEN PosInf
    ELSE IF x = Zero THEN Zero
    ELSE IF x[1] < 0 THEN NaN
    ELSE SqrtPos(x[1], x[2])

\* x < y for finite x, y
FLess(x, y) == LET d == FSub(x, y) IN d[1] < 0

(***************************************************************************)
(* numpy / scipy statistics over vectors of floats                         *)
(***************************************************************************)
\* np.add.reduce over fewer than 8 elements: a left-to-right loop
RECURSIVE FSumFrom(_, _, _)
FSumFrom(v, k, acc) ==
    IF k > Len(v) THEN acc ELSE FSumFrom(v, k + 1, FAdd(acc, v[k]))

FSum(v) == FSumFrom(v, 1, Zero)

\* X.mean(axis=1): the sum divided by the count
FMean(v) == FDiv(FSum(v), FromInt(Len(v)))

\* X -= avg[:, None]
RECURSIVE CenteredFrom(_, _, _)
CenteredFrom(v, avg, k) ==
    IF k > Len(v) THEN <<>>
    ELSE <<FSub(v[k], avg)>> \o CenteredFrom(v, avg, k + 1)

Centered(v) == CenteredFrom(v, FMean(v), 1)

\* one entry of dot(X, X.T): products summed left to right
RECURSIVE DotFrom(_, _, _, _)
DotFrom(u, w, k, acc) ==
    IF k > Len(u) THEN acc
    ELSE DotFrom(u, w, k + 1, FAdd(acc, FMul(u[k], w[k])))

Dot(u, w) == DotFrom(u, w, 1, Zero)

\* np.cov of the centred rows u, w: c = dot(X, X.T); c *= np.true_divide(1, fact)
\* with fact = N - 1
Cov(u, w) == FMul(Dot(u, w), FDiv(One, FromInt(Len(u) - 1)))

\* np.clip(c, -1, 1); NaN passes through
Clip(x) ==
    IF IsNaN(x) THEN NaN
    ELSE IF x = PosInf THEN One
    ELSE IF x = NegInf THEN MinusOne
    ELSE IF FLess(One, x) THEN One
    ELSE IF FLess(x, MinusOne) THEN MinusOne
    ELSE x

\* np.corrcoef(a, b)[r, c] for r /= c: c /= stddev[:, None]; c /= stddev[None, :]
\* divides the covariance by the row's deviation first, then the column's
CorrcoefCell(a, b, r, c) ==
    LET X == <<Centered(a), Centered(b)>>
    IN  Clip(FDiv(FDiv(Cov(X[r], X[c]), FSqrt(Cov(X[r], X[r]))),
                  FSqrt(Cov(X[c], X[c]))))

\* scipy.stats.rankdata, method "average"
RECURSIVE RankFrom(_, _)
RankFrom(v, k) ==
    IF k > Len(v) THEN <<>>
    ELSE LET less == Cardinality({h \in DOMAIN v : FLess(v[h], v[k])})
             same == Cardinality({h \in DOMAIN v : v[h] = v[k]})
         IN  <<FDiv(FromInt(2 * less + same + 1), FromInt(2))>> \o RankFrom(v, k + 1)

RankData(v) == RankFrom(v, 1)

IsConstant(v) == \A k \in DOMAIN v : v[k] = v[1]

\* the float64 nearest to the decimal k / 10
Tenths(k) == RoundPos(k, 10, 0)

\* the number a cell holds: a float column holds decimals, an int column
\* integers (exact as float64)
CellValue(kind, k) == IF kind = "float" THEN Tenths(k) ELSE FromInt(k)

RECURSIVE ValuesFrom(_, _, _)
ValuesFrom(kind, v, k) ==
    IF k > Len(v) THEN <<>>
    ELSE <<CellValue(kind, v[k])>> \o ValuesFrom(kind, v, k + 1)

\* Series.values of the non-null cells v of a column
Values(kind, v) == ValuesFrom(kind, v, 1)

\* np.corrcoef(a, b)[0, 1]
Pearson(a, b) == CorrcoefCell(a, b, 1, 2)

\* spearmanr(a, b)[0]: NaN on a constant input, else np.corrcoef of the
\* ranks, cell [1, 0]
Spearman(a, b) ==
    IF IsConstant(a) \/ IsConstant(b) THEN NaN
    ELSE CorrcoefCell(RankData(a), RankData(b), 2, 1)

(***************************************************************************)
(* Tables                                                                  *)
(***************************************************************************)
Kinds == {"integer", "float", "text", "boolean", "category", "datetime"}

Methods == {"pearson", "spearman"}

\* the cells a column of a kind can hold: an int64 or bool column has no
\* missing cell (pandas stores such a column with a missing cell as float64 /
\* object), a bool column holds only 0 and 1
CellsOf(kind, maxv) ==
    IF kind = "integer" THEN 0..maxv
    ELSE IF kind = "boolean" THEN {v \in 0..maxv : v <= 1}
    ELSE {NULL} \cup (0..maxv)

\* <<rows, columns>> of the tables of at most cells cells
Shapes(cells) == {sh \in (1..cells) \X (1..MaxCols) : sh[1] * sh[2] <= cells}

\* the table of the columns f[k] = <<kind, vals>>; column names are unique, a
\* column is named by its position at load time
LoadTable(f) == [k \in DOMAIN f |-> [name |-> k, kind |-> f[k][1], vals |-> f[k][2]]]

\* df is a table of rows rows and cols columns of the given kinds with cells
\* up to maxv
DrawTable(kinds, rows, cols, maxv) ==
    \E f \in [1..cols -> kinds \X [1..rows -> {NULL} \cup (0..maxv)]] :
        /\ \A k \in 1..cols : \A r \in 1..rows : f[k][2][r] \in CellsOf(f[k][1], maxv)
        /\ df = LoadTable(f)

\* df is the empty table or a table of at most cells cells
DrawBoundedTable(kinds, cells, maxv) ==
    \/ df = <<>>
    \/ \E sh \in Shapes(cells) : DrawTable(kinds, sh[1], sh[2], maxv)

NRows(t) == IF Len(t) = 0 THEN 0 ELSE Len(t[1].vals)

ColumnNames(t) == [k \in DOMAIN t |-> t[k].name]

(***************************************************************************)
(* create_correlation_matrix                                               *)
(***************************************************************************)
\* bool columns taken for numbers as well
IsNumericKindOrBool(kind) == kind \in {"integer", "float", "boolean"}

\* the kinds pandas stores with a "number" dtype
IsNumericKind(kind) == kind \in {"integer", "float"}

\* df.select_dtypes(include=["number"])
SelectNumber(t) == SelectSeq(t, LAMBDA c : IsNumericKind(c.kind))

\* a single mask for the whole matrix: the rows with no missing numeric cell
GlobalMask(ndf, i, j) ==
    [k \in DOMAIN ndf[i].vals |-> \A c \in DOMAIN ndf : ndf[c].vals[k] /= NULL]

\* numeric_df.iloc[:, i].notna() & numeric_df.iloc[:, j].notna()
ValidMask(ndf, i, j) ==
    [k \in DOMAIN ndf[i].vals |-> ndf[i].vals[k] /= NULL /\ ndf[j].vals[k] /= NULL]

\* <<valid_data_i, valid_data_j>>
ValidData(ndf, i, j) ==
    LET valid_mask == ValidMask(ndf, i, j)
    IN  <<SelectPos(ndf[i].vals, valid_mask, 1), SelectPos(ndf[j].vals, valid_mask, 1)>>

Statistic(m, a, b) == IF m = "spearman" THEN Spearman(a, b) ELSE Pearson(a, b)

\* corr_matrix[i, j] = corr if not np.isnan(corr) else 0.0
NanToZero(corr) == IF ~IsNaN(corr) THEN corr ELSE Zero

\* an undefined statistic stored as NaN
TooFewRowsNaN == NaN

\* the cell stored when fewer than two rows survive
TooFewRowsCell == Zero

\* every cell, the diagonal included, computed from the statistic
CorrCellNoDiagonal(ndf, i, j, m) ==
    LET vd == ValidData(ndf, i, j)
    IN  IF Len(vd[1]) > 1
        THEN NanToZero(Statistic(m, Values(ndf[i].kind, vd[1]),
                                    Values(ndf[j].kind, vd[2])))
        ELSE TooFewRowsCell

CorrCell(ndf, i, j, m) ==
    IF i = j THEN One
    ELSE LET vd == ValidData(ndf, i, j)
         IN  IF Len(vd[1]) > 1
             THEN NanToZero(Statistic(m, Values(ndf[i].kind, vd[1]),
                                         Values(ndf[j].kind, vd[2])))
             ELSE TooFewRowsCell

None == <<>>

create_correlation_matrix(t, m) ==
    LET numeric_df == SelectNumber(t)
        n_cols == Len(numeric_df)
    IN  IF n_cols < 2 THEN None
        ELSE [i \in 1..n_cols |-> [j \in 1..n_cols |-> CorrCell(numeric_df, i, j, m)]]

\* the vectors the loop fed to the statistic, per cell
FedVectors(t) ==
    LET numeric_df == SelectNumber(t)
        n_cols == Len(numeric_df)
    IN  IF n_cols < 2 THEN None
        ELSE [i \in 1..n_cols |-> [j \in 1..n_cols |->
                 IF i = j THEN <<>> ELSE ValidData(numeric_df, i, j)]]

(***************************************************************************)
(* infer_column_types                                                      *)
(***************************************************************************)
\* the kinds pandas stores with an object, category or bool dtype
IsCategoricalKind(kind) == kind \in {"text", "category", "boolean"}

ColumnByName(t, c) == t[CHOOSE k \in DOMAIN t : t[k].name = c]

\* the distinct values of a column, the missing cell counted as one of them
NUniqueWithNull(col) == Cardinality(Range(col.vals))

\* df[col].nunique(dropna=True)
NUnique(col) == Cardinality(Range(col.vals) \ {NULL})

\* df.select_dtypes(include=["number"]).columns.tolist()
NumericColumns(t) == ColumnNames(SelectNumber(t))

\* df.select_dtypes(include=["object", "category", "bool"]).columns.tolist()
CategoricalDtypeColumns(t) ==
    ColumnNames(SelectSeq(t, LAMBDA c : IsCategoricalKind(c.kind)))

\* the count raises (an unhashable cell, say): the except clause passes
NUniqueRaises(col) == col.name \in nunique_raises

\* for col in cols:
\*     try: if df[col].nunique(dropna=True) <= cat_threshold: categorical.append(col)
\*     except Exception: pass
RECURSIVE AppendLowCardinality(_, _, _, _, _)
AppendLowCardinality(lst, t, cols, th, k) ==
    IF k > Len(cols) THEN lst
    ELSE IF ~NUniqueRaises(ColumnByName(t, cols[k]))
            /\ NUnique(ColumnByName(t, cols[k])) <= th
         THEN AppendLowCardinality(Append(lst, cols[k]), t, cols, th, k + 1)
         ELSE AppendLowCardinality(lst, t, cols, th, k + 1)

\* [c for i, c in enumerate(categorical) if c not in categorical[:i]]
Dedupe(lst) ==
    SelectPos(lst, [i \in DOMAIN lst |-> lst[i] \notin {lst[h] : h \in 1..(i - 1)}], 1)

\* every low-cardinality column of the table appended, and no dedupe pass
CategoricalNoDedupe(t, th) ==
    AppendLowCardinality(CategoricalDtypeColumns(t), t, ColumnNames(t), th, 1)

\* the categorical list: lines 44-55
Categorical(t, th) ==
    Dedupe(AppendLowCardinality(CategoricalDtypeColumns(t), t, NumericColumns(t), th, 1))

\* <<numeric, categorical>>
infer_column_types(t, th) == <<NumericColumns(t), Categorical(t, th)>>

(***************************************************************************)
(* Plot controls: eda_update_plot_options                                  *)
(***************************************************************************)
\* cat_threshold: int = 20
DefaultCatThreshold == 20

\* the values of the eda-plot-type options
PlotTypes == {"scatter", "box", "bar", "hist", "violin"}

\* a plot type the dropdown does not offer
OtherPlotType == "line"

\* None as the value of a dropdown (column names are 1, 2, ...)
NoValue == 0

\* opts[0]["value"] if opts else None
first_or_none(opts) == IF opts /= <<>> THEN opts[1] ELSE NoValue

\* the x options of the box, violin and bar branches taken from numeric
XOptsNumericOnly(t, pt) ==
    LET types == infer_column_types(t, DefaultCatThreshold)
    IN  IF pt = "scatter" THEN types[1]
        ELSE IF pt \in {"box", "violin", "bar"} THEN types[1]
        ELSE IF pt = "hist" THEN types[1] \o types[2]
        ELSE ColumnNames(t)

XOpts(t, pt) ==
    LET types == infer_column_types(t, DefaultCatThreshold)
    IN  IF pt = "scatter" THEN types[1]
        ELSE IF pt \in {"box", "violin", "bar"} THEN types[2]
        ELSE IF pt = "hist" THEN types[1] \o types[2]
        ELSE ColumnNames(t)

YOpts(t, pt) ==
    LET types == infer_column_types(t, DefaultCatThreshold)
    IN  IF pt = "scatter" THEN types[1]
        ELSE IF pt \in {"box", "violin", "bar"} THEN types[1]
        ELSE IF pt = "hist" THEN <<>>
        ELSE ColumnNames(t)

SizeOpts(t, pt) ==
    LET types == infer_column_types(t, DefaultCatThreshold)
    IN  IF pt = "scatter" THEN types[1]
        ELSE IF pt \in {"box", "violin", "bar", "hist"} THEN <<>>
        ELSE ColumnNames(t)

\* color_opts = all_options in every branch
ColorOpts(t, pt) == ColumnNames(t)

\* x_opts, y_opts, color_opts, size_opts, first_or_none(x_opts),
\* first_or_none(y_opts), None, None
eda_update_plot_options(t, pt) ==
    <<XOpts(t, pt), YOpts(t, pt), ColorOpts(t, pt), SizeOpts(t, pt),
      first_or_none(XOpts(t, pt)), first_or_none(YOpts(t, pt)), NoValue, NoValue>>

\* the cells of a column that follows a pattern: all distinct, two values in
\* turn, or all missing
PatternVals(p, rows) ==
    [r \in 1..rows |-> IF p = "distinct" THEN r - 1
                       ELSE IF p = "two" THEN r % 2
                       ELSE NULL]

\* the patterns a column of a kind can follow
Patterns(kind) ==
    IF kind = "boolean" THEN {"two"}
    ELSE IF kind = "integer" THEN {"distinct", "two"}
    ELSE {"distinct", "two", "missing"}

\* row counts of the tables behind the plot controls: up to one more than
\* the cardinality threshold
RowCounts == {0, 1, DefaultCatThreshold + 1}

\* the kinds pd.read_json gives a column
StoredKinds == Kinds \ {"category"}

\* tables of at most cols columns of the given kinds that follow a pattern
\* each, with a row count of counts
PatternTables(kinds, counts, cols) ==
    {<<>>} \cup
    UNION {UNION {{LoadTable([k \in 1..n |-> <<f[k][1], PatternVals(f[k][2], rows)>>]) :
                      f \in {g \in [1..n -> kinds \X {"distinct", "two", "missing"}] :
                                \A k \in 1..n : g[k][2] \in Patterns(g[k][1])}} :
                  n \in 1..cols} :
           rows \in counts}

(***************************************************************************)
(* Figure building: eda_update_plot                                        *)
(***************************************************************************)
Figure(chart, title, fx, fy, fcolor, fsize) ==
    [chart |-> chart, title |-> title, x |-> fx, y |-> fy, color |-> fcolor,
     size |-> fsize]

\* return {}
EmptyFigure == Figure("none", "", NoValue, NoValue, NoValue, NoValue)

\* px.scatter(title=f"Error: {e}")
ErrorFigure(e) == Figure("scatter", e, NoValue, NoValue, NoValue, NoValue)

\* the px function of a plot type
Chart(pt) == IF pt = "hist" THEN "histogram" ELSE pt

\* the title of the figure returned while a required column is not selected
Prompt(pt) ==
    IF pt = "scatter" THEN "Select X and Y columns"
    ELSE IF pt = "hist" THEN "Select X column"
    ELSE "Select X (categorical) and Y (numeric)"

\* plotly express groups the integer and float columns of wide-form data as
\* numbers and tells the other columns apart by the kind of their dtype
WideFormType(kind) ==
    IF kind \in {"integer", "float"} THEN "number"
    ELSE IF kind \in {"text", "category"} THEN "O"
    ELSE kind

\* px called without x and y reads the table as wide-form data, and raises
\* when its columns are of different types
WideFormRaises(t) == Cardinality({WideFormType(t[k].kind) : k \in DOMAIN t}) > 1

\* px raises when an argument names no column of the table
UnknownColumn(t, names) == \E c \in names \ {NoValue} : c \notin Range(ColumnNames(t))

\* marker sizes must be numbers: px may raise on a size column that is not
\* numeric or has a missing cell
SizeMayRaise(t, fsize) ==
    /\ fsize /= NoValue
    /\ LET col == ColumnByName(t, fsize)
       IN  ~IsNumericKind(col.kind) \/ NULL \in Range(col.vals)

\* the figures a px call inside the try block can end in: the figure built,
\* or the figure of the except clause
PxFigures(t, chart, title, fx, fy, fcolor, fsize) ==
    IF UnknownColumn(t, {fx, fy, fcolor, fsize})
    THEN {ErrorFigure("Error: not the name of a column")}
    ELSE IF fx = NoValue /\ fy = NoValue /\ WideFormRaises(t)
    THEN {ErrorFigure("Error: wide-form data with columns of different type")}
    ELSE IF SizeMayRaise(t, fsize)
    THEN {Figure(chart, title, fx, fy, fcolor, fsize), ErrorFigure("Error: invalid size")}
    ELSE {Figure(chart, title, fx, fy, fcolor, fsize)}

\* the figures eda_update_plot(df_json, plot_type, x, y, color, size) can return
eda_update_plot(t, pt, ax, ay, acolor, asize) ==
    IF NRows(t) = 0 THEN {EmptyFigure}
    ELSE IF pt = "scatter" THEN
        IF ax = NoValue \/ ay = NoValue
        THEN PxFigures(t, "scatter", Prompt(pt), NoValue, NoValue, NoValue, NoValue)
        ELSE PxFigures(t, "scatter", "", ax, ay, acolor, asize)
    ELSE IF pt \in {"box", "violin", "bar"} THEN
        IF ax = NoValue \/ ay = NoValue
        THEN PxFigures(t, Chart(pt), Prompt(pt), NoValue, NoValue, NoValue, NoValue)
        ELSE PxFigures(t, Chart(pt), "", ax, ay, acolor, NoValue)
    ELSE IF pt = "hist" THEN
        IF ax = NoValue
        THEN PxFigures(t, Chart(pt), Prompt(pt), NoValue, NoValue, NoValue, NoValue)
        ELSE PxFigures(t, Chart(pt), "", ax, NoValue, acolor, NoValue)
    ELSE PxFigures(t, "scatter", "", ax, ay, NoValue, NoValue)

(***************************************************************************)
(* simple_plotter.py: make_scatter_with_dropdowns                          *)
(***************************************************************************)
\* pd.api.types.is_numeric_dtype: true of int, float and bool dtypes; a boolean
\* column with a missing cell is read as object dtype, which is not numeric
is_numeric_series(col) ==
    \/ col.kind \in {"integer", "float"}
    \/ col.kind = "boolean" /\ NULL \notin Range(col.vals)

Five == FromInt(5)
Ten == FromInt(10)
Twenty == FromInt(20)

\* s.astype(float): NaN for a missing cell
AsFloat(col) ==
    [r \in DOMAIN col.vals |->
        IF col.vals[r] = NULL THEN NaN ELSE CellValue(col.kind, col.vals[r])]

\* arr.max() and arr.min() skip NaN, and are NaN when nothing is left
FMax(S) == IF S = {} THEN NaN ELSE CHOOSE m \in S : \A v \in S : ~FLess(m, v)
FMin(S) == IF S = {} THEN NaN ELSE CHOOSE m \in S : \A v \in S : ~FLess(v, m)

\* [10] * len(s)
ConstantSize(n) == [r \in 1..n |-> Ten]

size_transform(col) ==
    IF ~is_numeric_series(col) THEN ConstantSize(Len(col.vals))
    ELSE LET arr == AsFloat(col)
             present == Range(arr) \ {NaN}
             lo == FMin(present)
             rng == FSub(FMax(present), lo)
         IN  IF rng = Zero \/ IsNaN(rng) THEN ConstantSize(Len(arr))
             ELSE [r \in DOMAIN arr |->
                      FAdd(Five, FMul(FDiv(FSub(arr[r], lo), rng), Twenty))]

\* s.tolist(): the cells as they are
Tolist(col) == <<"raw", col.vals>>

\* s.astype(str).tolist(): the cells as strings, which the cells of a column
\* of strings without a missing cell are already
AsStr(col) ==
    IF col.kind \in {"text", "category"} /\ NULL \notin Range(col.vals)
    THEN <<"raw", col.vals>>
    ELSE <<"str", col.vals>>

\* s.astype(str).tolist() if not is_numeric_series(s) else s.tolist()
AxisValues(col) == IF ~is_numeric_series(col) THEN AsStr(col) ELSE Tolist(col)

\* lambda s: s.tolist()
ColorValues(col) == Tolist(col)

\* the transform each call of make_buttons_for_attr is given
Transform(attr_path, col) ==
    CASE attr_path \in {"x", "y"} -> AxisValues(col)
      [] attr_path = "marker.color" -> ColorValues(col)
      [] attr_path = "marker.size" -> size_transform(col)

\* marker.colorscale and marker.showscale of a trace that sets neither
NoColorScale == [colorscale |-> "None", showscale |-> FALSE]

\* extra_payload of the color buttons; the other buttons have none
ExtraPayload(attr_path, col) ==
    IF attr_path = "marker.color" /\ is_numeric_series(col)
    THEN [colorscale |-> "Viridis", showscale |-> TRUE]
    ELSE NoColorScale

\* relayout_fn of the x and y buttons: the axis title; NoValue without one
Relayout(attr_path, col) == IF attr_path \in {"x", "y"} THEN col.name ELSE NoValue

\* for col in cols: buttons.append({"method": method, "label": col, "args": args})
make_buttons_for_attr(t, attr_path) ==
    [k \in DOMAIN t |->
        [label |-> t[k].name,
         arr |-> Transform(attr_path, t[k]),
         extra |-> ExtraPayload(attr_path, t[k]),
         relayout |-> Relayout(attr_path, t[k])]]

\* [c for c in cols if is_numeric_series(df[c])]
NumericCols(t) == ColumnNames(SelectSeq(t, is_numeric_series))

default_x(t) == IF Len(NumericCols(t)) >= 1 THEN NumericCols(t)[1] ELSE t[1].name

default_y(t) ==
    IF Len(NumericCols(t)) >= 2 THEN NumericCols(t)[2]
    ELSE IF Len(t) > 1 THEN t[2].name ELSE t[1].name

default_color(t) ==
    IF default_x(t) /= default_y(t) THEN default_x(t)
    ELSE IF NumericCols(t) /= <<>> THEN NumericCols(t)[1] ELSE t[1].name

\* cols.index(c)
IndexOf(t, c) == CHOOSE k \in DOMAIN t : t[k].name = c

\* go.Scatter(x=..., y=..., mode="markers", marker=dict(size=10, color=...))
\* with the axis titles set at the end; size=10 is 10 for every row
BaseTrace(t) ==
    [x |-> Tolist(ColumnByName(t, default_x(t))),
     y |-> Tolist(ColumnByName(t, default_y(t))),
     color |-> Tolist(ColumnByName(t, default_color(t))),
     colorscale |-> NoColorScale,
     size |-> ConstantSize(NRows(t)),
     xtitle |-> default_x(t),
     ytitle |-> default_y(t)]

NoTrace ==
    [x |-> Tolist([vals |-> <<>>]), y |-> Tolist([vals |-> <<>>]),
     color |-> Tolist([vals |-> <<>>]), colorscale |-> NoColorScale,
     size |-> <<>>, xtitle |-> NoValue, ytitle |-> NoValue]

\* active= of the four dropdowns
Active(t) ==
    [x |-> IndexOf(t, default_x(t)),
     y |-> IndexOf(t, default_y(t)),
     color |-> IndexOf(t, default_color(t)),
     size |-> 1]

NoActive == [x |-> 0, y |-> 0, color |-> 0, size |-> 0]

NoMenus == <<>>

\* the buttons of the x, y, color and size dropdowns
Updatemenus(t) ==
    [x |-> make_buttons_for_attr(t, "x"),
     y |-> make_buttons_for_attr(t, "y"),
     color |-> make_buttons_for_attr(t, "marker.color"),
     size |-> make_buttons_for_attr(t, "marker.size")]

(***************************************************************************)
(* eda_dashboard.py: eda_update_inspector_stats                            *)
(***************************************************************************)
\* value_counts.head(10)
TopN == 10

\* the number of cells of vals equal to v
CountOf(v, vals) == Cardinality({r \in DOMAIN vals : vals[r] = v})

\* seq with v put behind the last entry whose count is at least v's
RECURSIVE InsertByCount(_, _, _)
InsertByCount(seq, v, vals) ==
    IF seq = <<>> THEN <<v>>
    ELSE IF CountOf(seq[Len(seq)], vals) >= CountOf(v, vals) THEN Append(seq, v)
    ELSE Append(InsertByCount(SubSeq(seq, 1, Len(seq) - 1), v, vals), seq[Len(seq)])

RECURSIVE SortByCount(_, _, _)
SortByCount(firstSeen, k, vals) ==
    IF k = 0 THEN <<>>
    ELSE InsertByCount(SortByCount(firstSeen, k - 1, vals), firstSeen[k], vals)

\* Series.value_counts(): the distinct non-null values, the most frequent
\* first, equally frequent ones as they first appear
value_counts(col) ==
    LET firstSeen == Dedupe(SelectSeq(col.vals, LAMBDA v : v /= NULL))
    IN  SortByCount(firstSeen, Len(firstSeen), col.vals)

\* seq.head(n)
HeadN(seq, n) == SubSeq(seq, 1, IF Len(seq) < n THEN Len(seq) ELSE n)

\* f"{count/total*100:.1f}": the percentage in tenths, rounded to nearest
\* (ties to even)
PercentText(count, total) ==
    LET q == (1000 * count) \div total
        r == (1000 * count) % total
    IN  IF 2 * r > total \/ (2 * r = total /\ q % 2 = 1) THEN q + 1 ELSE q

\* html.Tr([html.Td(f"{val}:"), html.Td(f"{count} ({count/len(df)*100:.1f}%)")])
FrequencyRow(v, col, total) ==
    [val |-> v, count |-> CountOf(v, col.vals),
     percent |-> PercentText(CountOf(v, col.vals), total)]

\* the rows with the percentage taken of total rows
FrequencyRows(col, total) ==
    LET top == HeadN(value_counts(col), TopN)
    IN  [k \in DOMAIN top |-> FrequencyRow(top[k], col, total)]

\* the percentage taken of len(df)
FrequencyRowsOfTable(col, t) == FrequencyRows(col, NRows(t))

\* return ""
EmptyPanel == [type |-> "", unique |-> 0, rows |-> <<>>]

eda_update_inspector_stats(t, column, numeric_cols) ==
    IF column = NoValue THEN EmptyPanel
    ELSE IF column \in Range(numeric_cols)
    THEN [type |-> "Numeric", unique |-> 0, rows |-> <<>>]
    ELSE LET col == ColumnByName(t, column)
         IN  [type |-> "Categorical",
              unique |-> Cardinality(Range(col.vals)),
              rows |-> FrequencyRowsOfTable(col, t)]

(***************************************************************************)
(* eda_dashboard.py, dash_plotter.py: the upload handlers                  *)
(***************************************************************************)
\* the contents property of the upload component: None, a file that neither
\* pd.read_csv nor pd.read_excel can read, or a file holding a table
NoContents == [kind |-> "none", table |-> <<>>]
BadContents == [kind |-> "bad", table |-> <<>>]
FileContents(t) == [kind |-> "file", table |-> t]

\* parse_upload: the table of the file, or ValueError
parse_upload(contents) ==
    IF contents.kind = "file" THEN <<"returned", contents.table>> ELSE <<"raised", <<>>>>

\* df.to_json(date_format="iso", orient="split") as safe_read_json reads it
\* back: names and cells are kept, a category column comes back as text
to_json(t) ==
    [k \in DOMAIN t |-> [t[k] EXCEPT !.kind = IF @ = "category" THEN "text" ELSE @]]

\* a failed upload taken to empty the store
StoreClearedOnFailure(current_json, contents) ==
    IF contents = NoContents THEN current_json
    ELSE IF parse_upload(contents)[1] = "raised" THEN <<>>
    ELSE to_json(parse_upload(contents)[2])

\* the first value handle_eda_upload and handle_upload return (the store)
StoreAfterUpload(current_json, contents) ==
    IF contents = NoContents THEN current_json
    ELSE IF parse_upload(contents)[1] = "raised" THEN current_json
    ELSE to_json(parse_upload(contents)[2])

\* the message returned with it
StatusAfterUpload(contents) ==
    IF contents = NoContents THEN "example"
    ELSE IF parse_upload(contents)[1] = "raised" THEN "failed"
    ELSE "loaded"

\* px.data.iris() resp. px.data.tips(): the table the store starts with
DefaultTable == LoadTable(<<<<"float", <<0, 1>>>>, <<"text", <<0, 0>>>>>>)

(***************************************************************************)
(* eda_dashboard.py: the callbacks behind the stores, as Dash runs them    *)
(***************************************************************************)
CallbackNames ==
    {"handle_eda_upload", "update_column_type_stores", "eda_update_inspector_columns",
     "eda_update_inspector_stats", "eda_update_corr_heatmap"}

\* the Input and State properties of a callback
Inputs(cb) ==
    CASE cb = "handle_eda_upload" -> {"eda-upload-data"}
      [] cb = "update_column_type_stores" -> {"eda-df-store"}
      [] cb = "eda_update_inspector_columns" -> {"eda-df-store"}
      [] cb = "eda_update_inspector_stats" ->
             {"eda-df-store", "eda-inspector-column", "eda-numeric-cols-store",
              "eda-categorical-cols-store"}
      [] cb = "eda_update_corr_heatmap" ->
             {"eda-df-store", "eda-corr-method", "eda-numeric-cols-store"}

\* its Output properties
Outputs(cb) ==
    CASE cb = "handle_eda_upload" -> {"eda-df-store"}
      [] cb = "update_column_type_stores" ->
             {"eda-numeric-cols-store", "eda-categorical-cols-store"}
      [] cb = "eda_update_inspector_columns" -> {"eda-inspector-column"}
      [] cb = "eda_update_inspector_stats" -> {"eda-inspector-stats"}
      [] cb = "eda_update_corr_heatmap" -> {"eda-corr-heatmap"}

\* the callbacks a change of the properties props triggers
Dependents(props) == {cb \in CallbackNames : Inputs(cb) \cap props /= {}}

\* the contents the upload component holds
CurrentContents == IF uploads = <<>> THEN NoContents ELSE uploads[Len(uploads)]

\* the property values a callback is called with
Arguments ==
    [df |-> df, numeric |-> numeric, categorical |-> categorical,
     column |-> inspector_column, method |-> method, contents |-> CurrentContents]

NoArguments ==
    [df |-> <<>>, numeric |-> None, categorical |-> None,
     column |-> NoValue, method |-> "pearson", contents |-> NoContents]

NotRequested == [state |-> "idle", args |-> NoArguments]
Requested == [state |-> "requested", args |-> NoArguments]
Executing(args) == [state |-> "executing", args |-> args]

\* every requested callback taken to start at once
ReadyAtOnce(cb) == callbacks[cb].state = "requested"

\* Dash starts a requested callback once none of its inputs is an output of
\* another callback that is requested or executing
Ready(cb) ==
    /\ callbacks[cb].state = "requested"
    /\ \A other \in CallbackNames \ {cb} :
           callbacks[other].state /= "idle" => Outputs(other) \cap Inputs(cb) = {}

\* a newly requested callback replaces its earlier request or execution,
\* whose result is dropped
Request(cbs, old) == [cb \in CallbackNames |-> IF cb \in cbs THEN Requested ELSE old[cb]]

\* df[numeric_cols] raises KeyError on a name that is no column
HeatmapRaises(a) == Range(a.numeric) \ Range(ColumnNames(a.df)) /= {}

\* x and y of go.Heatmap: numeric_df.columns.tolist(), none for the message
\* figure
HeatmapLabels(a) == IF Len(a.numeric) < 2 THEN <<>> ELSE a.numeric

\* z of go.Heatmap
HeatmapMatrix(a) ==
    IF Len(a.numeric) < 2 THEN None ELSE create_correlation_matrix(a.df, a.method)

\* df.columns[0] if len(df.columns) > 0 else None
FirstColumn(t) == IF Len(t) > 0 THEN t[1].name ELSE NoValue

\* df[column] raises KeyError
InspectorRaises(a) == a.column /= NoValue /\ a.column \notin Range(ColumnNames(a.df))

(***************************************************************************)
(* Specifications                                                          *)
(***************************************************************************)
Quiet ==
    /\ pc = "idle"
    /\ method = "pearson"
    /\ cat_threshold = 0
    /\ corr_outcome = "none"
    /\ corr_matrix = None
    /\ valid_data = None
    /\ numeric = <<>>
    /\ categorical = <<>>
    /\ plot_type = "scatter"
    /\ x_opts = <<>> /\ y_opts = <<>> /\ color_opts = <<>> /\ size_opts = <<>>
    /\ x_value = NoValue /\ y_value = NoValue
    /\ color_value = NoValue /\ size_value = NoValue
    /\ figure = EmptyFigure
    /\ callback_outcome = "none"
    /\ updatemenus = NoMenus
    /\ scatter_outcome = "none"
    /\ trace = NoTrace
    /\ active = NoActive
    /\ inspector_column = NoValue
    /\ inspector_stats = EmptyPanel
    /\ uploads = <<>>
    /\ upload_status = "none"
    /\ heatmap_labels = <<>>

\* the EDA dashboard before any callback has run
Idle == Quiet /\ app = "eda" /\ callbacks = [cb \in CallbackNames |-> NotRequested]

\* a call create_correlation_matrix(df, method=m): the function has no raise
\* statement, every call returns
Correlate(m) ==
    /\ pc = "idle"
    /\ pc' = "correlated"
    /\ method' = m
    /\ corr_outcome' = "returned"
    /\ corr_matrix' = create_correlation_matrix(df, m)
    /\ valid_data' = FedVectors(df)
    /\ UNCHANGED <<tableVars, inferVars, plot_type, optionVars, valueVars, figureVars, scatterVars, inspectVars, uploadVars, chainVars>>

\* a call infer_column_types(df, cat_threshold=th)
Classify(th) ==
    /\ pc = "idle"
    /\ pc' = "classified"
    /\ cat_threshold' = th
    /\ numeric' = infer_column_types(df, th)[1]
    /\ categorical' = infer_column_types(df, th)[2]
    /\ UNCHANGED <<tableVars, corrVars, plot_type, optionVars, valueVars, figureVars, scatterVars, inspectVars, uploadVars, chainVars>>

\* Series.nunique raises on no column
NoRaise == nunique_raises = {}

Init ==
    /\ DrawBoundedTable({"integer", "float", "text"}, MaxCells, MaxVal)
    /\ NoRaise
    /\ Idle

Next == \E m \in Methods : Correlate(m)

Spec == Init /\ [][Next]_vars

\* tables of two float columns with a wider range of values
InitPair == DrawTable({"float"}, MaxCells \div 2, 2, MaxValPair) /\ NoRaise /\ Idle

SpecPair == InitPair /\ [][Next]_vars

\* tables of every kind of column for the classifier
InitInfer == DrawBoundedTable(Kinds, MaxCellsInfer, MaxVal) /\ NoRaise /\ Idle

NextInfer == \E th \in 0..MaxThreshold : Classify(th)

SpecInfer == InitInfer /\ [][NextInfer]_vars

\* a run of eda_update_plot_options(df_json, plot_type) on the stored table
OptionsCallback(pt) ==
    /\ pc \in {"idle", "event"}
    /\ pc' = "options"
    /\ plot_type' = pt
    /\ x_opts' = eda_update_plot_options(df, pt)[1]
    /\ y_opts' = eda_update_plot_options(df, pt)[2]
    /\ color_opts' = eda_update_plot_options(df, pt)[3]
    /\ size_opts' = eda_update_plot_options(df, pt)[4]
    /\ x_value' = eda_update_plot_options(df, pt)[5]
    /\ y_value' = eda_update_plot_options(df, pt)[6]
    /\ color_value' = eda_update_plot_options(df, pt)[7]
    /\ size_value' = eda_update_plot_options(df, pt)[8]
    /\ callback_outcome' = "returned"
    /\ UNCHANGED <<tableVars, corrVars, inferVars, figure, scatterVars, inspectVars, uploadVars, chainVars>>

InitOptions == df \in PatternTables(StoredKinds, RowCounts, MaxColsDash) /\ NoRaise /\ Idle

NextOptions == \E pt \in PlotTypes \cup {OtherPlotType} : OptionsCallback(pt)

SpecOptions == InitOptions /\ [][NextOptions]_vars

\* a run of eda_update_plot(df_json, plot_type, x, y, color, size): every
\* path returns a figure, the except clause included
PlotCallback(pt, ax, ay, acolor, asize) ==
    /\ pc = "idle"
    /\ pc' = "plotted"
    /\ plot_type' = pt
    /\ x_value' = ax /\ y_value' = ay /\ color_value' = acolor /\ size_value' = asize
    /\ figure' \in eda_update_plot(df, pt, ax, ay, acolor, asize)
    /\ callback_outcome' = "returned"
    /\ UNCHANGED <<tableVars, corrVars, inferVars, optionVars, scatterVars, inspectVars, uploadVars, chainVars>>

\* the column arguments tried on a table: none, its first and last column,
\* and a name that is not in the table
ArgNames(t) == {NoValue, 1, Len(t), Len(t) + 1}

InitPlot == DrawBoundedTable(StoredKinds, MaxCellsPlot, 0) /\ NoRaise /\ Idle

NextPlot ==
    \E pt \in PlotTypes \cup {OtherPlotType} :
        \/ OptionsCallback(pt)
        \/ \E ax, ay, acolor, asize \in ArgNames(df) : PlotCallback(pt, ax, ay, acolor, asize)

SpecPlot == InitPlot /\ [][NextPlot]_vars

\* a call make_scatter_with_dropdowns(df); on a table without columns cols[0]
\* raises IndexError
MakeScatter ==
    /\ pc = "idle"
    /\ pc' = "figured"
    /\ IF Len(df) = 0
       THEN scatter_outcome' = "raised" /\ UNCHANGED <<updatemenus, trace, active>>
       ELSE /\ scatter_outcome' = "returned"
            /\ updatemenus' = Updatemenus(df)
            /\ trace' = BaseTrace(df)
            /\ active' = Active(df)
    /\ UNCHANGED <<tableVars, corrVars, inferVars, plot_type, optionVars, valueVars,
                   figureVars, inspectVars, uploadVars, chainVars>>

InitScatter == DrawBoundedTable(Kinds, MaxCellsSize, MaxValSize) /\ NoRaise /\ Idle

NextScatter == MakeScatter

SpecScatter == InitScatter /\ [][NextScatter]_vars

\* the inspector callback, run with the role list of the stored table
InspectColumn(column) ==
    /\ pc = "idle"
    /\ pc' = "inspected"
    /\ inspector_column' = column
    /\ inspector_stats' = eda_update_inspector_stats(df, column, NumericColumns(df))
    /\ UNCHANGED <<tableVars, corrVars, inferVars, plot_type, optionVars, valueVars,
                   figureVars, scatterVars, uploadVars, chainVars>>

\* df is one text column of n distinct values followed by the cells of tail
DrawLongColumn(n, tails) ==
    \E tail \in tails :
        df = LoadTable(<<<<"text", [r \in 1..n |-> r] \o tail>>>>)

\* the sequences of at most MaxTail cells out of NULL, 1 and 2
Tails == UNION {[1..n -> {NULL, 1, 2}] : n \in 0..MaxTail}

InitInspect ==
    /\ \/ DrawBoundedTable(StoredKinds, MaxCellsInspect, MaxValInspect)
       \/ \E n \in {TopN - 1, TopN, TopN + 1} : DrawLongColumn(n, Tails)
    /\ NoRaise
    /\ Idle

NextInspect == \E column \in {NoValue} \cup Range(ColumnNames(df)) : InspectColumn(column)

SpecInspect == InitInspect /\ [][NextInspect]_vars

\* the tables an uploaded file can hold
UploadTables == PatternTables({"float", "text"}, {2}, MaxColsUpload)

UploadContents == {NoContents, BadContents} \cup {FileContents(t) : t \in UploadTables}

\* the upload component delivers contents to the handler of the running app
Upload(contents) ==
    /\ Len(uploads) < MaxUploads
    /\ uploads' = Append(uploads, contents)
    /\ df' = StoreAfterUpload(df, contents)
    /\ upload_status' = StatusAfterUpload(contents)
    /\ pc' = "uploaded"
    /\ UNCHANGED <<app, nunique_raises, corrVars, inferVars, plot_type, optionVars,
                   valueVars, figureVars, scatterVars, inspectVars, chainVars>>

\* eda_dashboard.py
handle_eda_upload(contents) == app = "eda" /\ Upload(contents)

\* dash_plotter.py
handle_upload(contents) == app = "dash" /\ Upload(contents)

InitUpload ==
    /\ df = DefaultTable
    /\ NoRaise
    /\ Quiet
    /\ app \in {"eda", "dash"}
    /\ callbacks = [cb \in CallbackNames |-> NotRequested]

NextUpload ==
    \/ \E contents \in UploadContents : handle_eda_upload(contents)
    \/ \E contents \in UploadContents : handle_upload(contents)

SpecUpload == InitUpload /\ [][NextUpload]_vars

\* the tables uploaded while the callbacks of the stores are observed: none,
\* one or two numeric columns
ChainTables ==
    {LoadTable(<<<<"text", <<0, 1>>>>>>),
     LoadTable(<<<<"text", <<0, 1>>>>, <<"float", <<0, 1>>>>>>),
     LoadTable(<<<<"float", <<0, 1>>>>, <<"float", <<1, 0>>>>>>)}

ChainContents == {BadContents} \cup {FileContents(t) : t \in ChainTables}

\* the user uploads a file
UserUpload(contents) ==
    /\ Len(uploads) < MaxChainUploads
    /\ uploads' = Append(uploads, contents)
    /\ callbacks' = Request({"handle_eda_upload"}, callbacks)
    /\ UNCHANGED <<tableVars, pc, corrVars, inferVars, plot_type, optionVars, valueVars,
                   figureVars, scatterVars, inspectVars, app, upload_status,
                   heatmap_labels>>

\* the user picks the other correlation method
UserSelectMethod(m) ==
    /\ m /= method
    /\ method' = m
    /\ callbacks' = Request(Dependents({"eda-corr-method"}), callbacks)
    /\ UNCHANGED <<tableVars, pc, corr_outcome, corr_matrix, valid_data, inferVars,
                   plot_type, optionVars, valueVars, figureVars, scatterVars,
                   inspectVars, uploadVars, heatmap_labels>>

\* Dash calls a ready callback with the current property values
StartCallback(cb) ==
    /\ Ready(cb)
    /\ callbacks' = [callbacks EXCEPT ![cb] = Executing(Arguments)]
    /\ UNCHANGED <<tableVars, pc, corrVars, inferVars, plot_type, optionVars, valueVars,
                   figureVars, scatterVars, inspectVars, uploadVars, heatmap_labels>>

\* the callback returns: its outputs are set and their dependents requested
FinishCallback(cb) ==
    /\ callbacks[cb].state = "executing"
    /\ LET a == callbacks[cb].args
           done == [callbacks EXCEPT ![cb] = NotRequested]
           returned == Request(Dependents(Outputs(cb)), done)
       IN  CASE cb = "handle_eda_upload" ->
                  /\ df' = StoreAfterUpload(a.df, a.contents)
                  /\ upload_status' = StatusAfterUpload(a.contents)
                  /\ callbacks' = returned
                  /\ UNCHANGED <<nunique_raises, corrVars, inferVars, inspectVars,
                                 app, uploads, heatmap_labels>>
             [] cb = "update_column_type_stores" ->
                  /\ cat_threshold' = DefaultCatThreshold
                  /\ numeric' = infer_column_types(a.df, DefaultCatThreshold)[1]
                  /\ categorical' = infer_column_types(a.df, DefaultCatThreshold)[2]
                  /\ callbacks' = returned
                  /\ UNCHANGED <<tableVars, corrVars, inspectVars, uploadVars,
                                 heatmap_labels>>
             [] cb = "eda_update_inspector_columns" ->
                  /\ inspector_column' = FirstColumn(a.df)
                  /\ callbacks' = returned
                  /\ UNCHANGED <<tableVars, corrVars, inferVars, inspector_stats,
                                 uploadVars, heatmap_labels>>
             [] cb = "eda_update_inspector_stats" ->
                  /\ IF InspectorRaises(a)
                     THEN callbacks' = done /\ UNCHANGED inspector_stats
                     ELSE /\ callbacks' = returned
                          /\ inspector_stats' =
                                 eda_update_inspector_stats(a.df, a.column, a.numeric)
                  /\ UNCHANGED <<tableVars, corrVars, inferVars, inspector_column,
                                 uploadVars, heatmap_labels>>
             [] cb = "eda_update_corr_heatmap" ->
                  /\ IF HeatmapRaises(a)
                     THEN /\ callbacks' = done
                          /\ corr_outcome' = "raised"
                          /\ UNCHANGED <<corr_matrix, valid_data, heatmap_labels>>
                     ELSE /\ callbacks' = returned
                          /\ corr_outcome' = "returned"
                          /\ corr_matrix' = HeatmapMatrix(a)
                          /\ valid_data' = FedVectors(a.df)
                          /\ heatmap_labels' = HeatmapLabels(a)
                  /\ UNCHANGED <<tableVars, method, inferVars, inspectVars, uploadVars>>
    /\ UNCHANGED <<pc, plot_type, optionVars, valueVars, figureVars, scatterVars>>

\* the page has loaded: the stores hold the example dataset and no role
\* lists, and every callback is requested once
InitChain ==
    /\ df = DefaultTable
    /\ NoRaise
    /\ Quiet
    /\ app = "eda"
    /\ callbacks = [cb \in CallbackNames |-> Requested]

NextChain ==
    \/ \E contents \in ChainContents : UserUpload(contents)
    \/ \E m \in Methods : UserSelectMethod(m)
    \/ \E cb \in CallbackNames : StartCallback(cb)
    \/ \E cb \in CallbackNames : FinishCallback(cb)

SpecChain == InitChain /\ [][NextChain]_vars

\* the tables an upload can store while the plot tab is in use
DashTables ==
    PatternTables({"float", "text"}, {DefaultCatThreshold + 1}, MaxColsDash)

\* the user picks another plot type: eda_update_plot_options is due
SelectPlotType(pt) ==
    /\ pt /= plot_type
    /\ plot_type' = pt
    /\ pc' = "event"
    /\ UNCHANGED <<tableVars, corrVars, inferVars, optionVars, valueVars, figureVars, scatterVars, inspectVars, uploadVars, chainVars>>

\* handle_eda_upload stores a parsed upload: eda_update_plot_options is due
ReplaceTable(t) ==
    /\ df' = t
    /\ pc' = "event"
    /\ UNCHANGED <<nunique_raises, corrVars, inferVars, plot_type, optionVars, valueVars,
                   figureVars, scatterVars, inspectVars, uploadVars, chainVars>>

\* the user picks one of the options of a column dropdown, or clears it
SelectColumn ==
    /\ pc \in {"options", "selected"}
    /\ pc' = "selected"
    /\ \/ \E v \in Range(x_opts) \cup {NoValue} :
              x_value' = v /\ UNCHANGED <<y_value, color_value, size_value>>
       \/ \E v \in Range(y_opts) \cup {NoValue} :
              y_value' = v /\ UNCHANGED <<x_value, color_value, size_value>>
       \/ \E v \in Range(color_opts) \cup {NoValue} :
              color_value' = v /\ UNCHANGED <<x_value, y_value, size_value>>
       \/ \E v \in Range(size_opts) \cup {NoValue} :
              size_value' = v /\ UNCHANGED <<x_value, y_value, color_value>>
    /\ UNCHANGED <<tableVars, corrVars, inferVars, plot_type, optionVars, figureVars, scatterVars, inspectVars, uploadVars, chainVars>>

InitDash == df \in DashTables /\ NoRaise /\ Idle

NextDash ==
    \/ \E pt \in PlotTypes : SelectPlotType(pt)
    \/ \E t \in DashTables : ReplaceTable(t)
    \/ SelectColumn
    \/ OptionsCallback(plot_type)

SpecDash == InitDash /\ [][NextDash]_vars

\* tables with one column on which Series.nunique raises
InitRaise ==
    /\ DrawBoundedTable(Kinds, MaxCellsInfer, MaxVal)
    /\ \E c \in DOMAIN df : nunique_raises = {df[c].name}
    /\ Idle

SpecRaise == InitRaise /\ [][NextInfer]_vars

(***************************************************************************)
(* Properties of the correlation matrix                                    *)
(***************************************************************************)
HasMatrix == pc = "correlated" /\ corr_matrix /= None

NumericDf == SelectNumber(df)

\* the rows where both columns hold a value
BothPresent(ci, cj) == {k \in DOMAIN ci.vals : ci.vals[k] /= NULL /\ cj.vals[k] /= NULL}

\* the values of column c on the rows of S
ValuesOn(c, S) == {c.vals[k] : k \in S}

OffDiagonal == {p \in (DOMAIN NumericDf) \X (DOMAIN NumericDf) : p[1] /= p[2]}

\* C1: the returned matrix is exactly symmetric, cell [i][j] equals cell
\* [j][i] for all pairs of numeric columns, for both methods
C1_Symmetric ==
    HasMatrix =>
        \A i, j \in DOMAIN corr_matrix : corr_matrix[i][j] = corr_matrix[j][i]

\* C2: with at least two numeric columns every diagonal cell is exactly 1.0,
\* whatever the column holds
C2_DiagonalOne ==
    HasMatrix => \A i \in DOMAIN corr_matrix : corr_matrix[i][i] = One

\* a matrix over a numeric column that is all null and one that is constant
C2_Witness ==
    /\ HasMatrix
    /\ \E i \in DOMAIN NumericDf : \A k \in DOMAIN NumericDf[i].vals :
           NumericDf[i].vals[k] = NULL
    /\ \E i \in DOMAIN NumericDf :
           /\ NRows(df) > 1
           /\ \A k \in DOMAIN NumericDf[i].vals :
                  NumericDf[i].vals[k] = NumericDf[i].vals[1] /\ NumericDf[i].vals[1] /= NULL

\* C3: for every off-diagonal pair the two vectors fed to the statistic are
\* the values of column i and of column j on exactly the rows where both are
\* non-null, in row order; a null in a third column removes no row
C3_PairwiseDeletion ==
    HasMatrix =>
        \A p \in OffDiagonal :
            LET ci == NumericDf[p[1]]
                cj == NumericDf[p[2]]
                S == BothPresent(ci, cj)
                vd == valid_data[p[1]][p[2]]
            IN  /\ Len(vd[1]) = Cardinality(S)
                /\ Len(vd[2]) = Cardinality(S)
                /\ \A k \in S :
                       LET pos == Cardinality({h \in S : h <= k})
                       IN  vd[1][pos] = ci.vals[k] /\ vd[2][pos] = cj.vals[k]

\* a third column is null on a row that the pair keeps
C3_Witness ==
    /\ HasMatrix
    /\ \E p \in OffDiagonal : \E c \in DOMAIN NumericDf :
           /\ c /= p[1] /\ c /= p[2]
           /\ \E k \in BothPresent(NumericDf[p[1]], NumericDf[p[2]]) :
                  /\ NumericDf[c].vals[k] = NULL
                  /\ Len(valid_data[p[1]][p[2]][1]) = 2

\* C4: an off-diagonal pair with fewer than 2 surviving rows has the cell
\* exactly 0.0 (not NaN, not 1.0)
C4_TooFewRowsZero ==
    HasMatrix =>
        \A p \in OffDiagonal :
            Cardinality(BothPresent(NumericDf[p[1]], NumericDf[p[2]])) < 2
                => corr_matrix[p[1]][p[2]] = Zero

\* one pair with a single surviving row and one with none
C4_Witness ==
    /\ HasMatrix
    /\ \E p \in OffDiagonal :
           Cardinality(BothPresent(NumericDf[p[1]], NumericDf[p[2]])) = 1
    /\ \E p \in OffDiagonal :
           Cardinality(BothPresent(NumericDf[p[1]], NumericDf[p[2]])) = 0

\* C5: an off-diagonal pair with at least 2 surviving rows and zero variance
\* on one side over those rows has the cell 0.0, and no cell is ever NaN
C5_ZeroVarianceZero ==
    HasMatrix =>
        /\ \A p \in OffDiagonal :
               LET S == BothPresent(NumericDf[p[1]], NumericDf[p[2]])
               IN  (/\ Cardinality(S) >= 2
                    /\ \/ Cardinality(ValuesOn(NumericDf[p[1]], S)) = 1
                       \/ Cardinality(ValuesOn(NumericDf[p[2]], S)) = 1)
                       => corr_matrix[p[1]][p[2]] = Zero
        /\ \A i, j \in DOMAIN corr_matrix : ~IsNaN(corr_matrix[i][j])

\* C6: a request over a table with fewer than 2 numeric columns ends in an
\* error (InsufficientDataError), not in a normal return
C6_InsufficientDataRaises ==
    (pc = "correlated" /\ Len(NumericDf) < 2) => corr_outcome = "raised"

(***************************************************************************)
(* Properties of infer_column_types                                        *)
(***************************************************************************)
Classified == pc = "classified"

\* the distinct non-null values of the k-th column of the table
DistinctNonNull(k) == {df[k].vals[r] : r \in DOMAIN df[k].vals} \ {NULL}

\* lst lists its columns in the order of the table (names are positions)
InTableOrder(lst) == \A a, b \in DOMAIN lst : a < b => lst[a] < lst[b]

\* C7: a column is in the numeric list iff its kind is integer or float; a
\* text column is categorical only and a float column with more distinct
\* values than the threshold is numeric only
C7_NumericIffNumberKind ==
    Classified =>
        \A k \in DOMAIN df :
            /\ df[k].name \in Range(numeric) <=> df[k].kind \in {"integer", "float"}
            /\ df[k].kind = "text" =>
                   df[k].name \in Range(categorical) /\ df[k].name \notin Range(numeric)
            /\ (df[k].kind = "float" /\ Cardinality(DistinctNonNull(k)) > cat_threshold) =>
                   df[k].name \in Range(numeric) /\ df[k].name \notin Range(categorical)

\* [text, float, float] with more distinct values than the threshold in each
\* float column, next to tables with a boolean and a datetime column
C7_Witness ==
    /\ Classified
    /\ Len(df) = 3
    /\ df[1].kind = "text" /\ df[2].kind = "float" /\ df[3].kind = "float"
    /\ Cardinality(DistinctNonNull(2)) > cat_threshold
    /\ Cardinality(DistinctNonNull(3)) > cat_threshold
    /\ numeric = <<2, 3>>
    /\ categorical = <<1>>

\* C8: a column is in the categorical list iff its kind is text, boolean or
\* category, or it is numeric with at most cat_threshold distinct non-null
\* values (nulls are not counted)
C8_CategoricalIff ==
    Classified =>
        \A k \in DOMAIN df :
            df[k].name \in Range(categorical) <=>
                \/ df[k].kind \in {"text", "boolean", "category"}
                \/ /\ df[k].kind \in {"integer", "float"}
                   /\ Cardinality(DistinctNonNull(k)) <= cat_threshold

\* a numeric column with exactly cat_threshold distinct values and a null is
\* categorical, one with cat_threshold + 1 is not
C8_Witness ==
    /\ Classified
    /\ cat_threshold >= 1
    /\ \E k \in DOMAIN df :
           /\ df[k].kind = "float"
           /\ NULL \in Range(df[k].vals)
           /\ Cardinality(DistinctNonNull(k)) = cat_threshold
           /\ df[k].name \in Range(categorical) /\ df[k].name \in Range(numeric)
    /\ \E k \in DOMAIN df :
           /\ df[k].kind \in {"integer", "float"}
           /\ Cardinality(DistinctNonNull(k)) = cat_threshold + 1
           /\ df[k].name \notin Range(categorical)

\* C9: both returned lists are in the table's column order
C9_TableOrder ==
    Classified => InTableOrder(numeric) /\ InTableOrder(categorical)

\* C10: neither returned list holds a column name twice
C10_NoDuplicates ==
    Classified =>
        /\ \A a, b \in DOMAIN numeric : numeric[a] = numeric[b] => a = b
        /\ \A a, b \in DOMAIN categorical : categorical[a] = categorical[b] => a = b

\* the categorical list holds a text column and an appended numeric column
C10_Witness ==
    /\ Classified
    /\ \E k, h \in DOMAIN df :
           /\ df[k].kind = "text" /\ df[h].kind \in {"integer", "float"}
           /\ {df[k].name, df[h].name} \subseteq Range(categorical)
           /\ Cardinality(DistinctNonNull(k)) <= cat_threshold

\* the table without the columns named in S
WithoutColumns(t, S) == SelectSeq(t, LAMBDA c : c.name \notin S)

\* C11: when counting the distinct values of one column raises, the call
\* still returns, the column is in neither list, and every other column has
\* the roles it has in the table without that column
C11_BadColumnNeither ==
    (Classified /\ nunique_raises /= {}) =>
        /\ \A c \in nunique_raises : c \notin Range(numeric) /\ c \notin Range(categorical)
        /\ LET rest == WithoutColumns(df, nunique_raises)
               keep(lst) == SelectSeq(lst, LAMBDA c : c \notin nunique_raises)
           IN  /\ keep(numeric) = NumericColumns(rest)
               /\ keep(categorical) = Categorical(rest, cat_threshold)

(***************************************************************************)
(* Properties of the plot controls                                         *)
(***************************************************************************)
OptionsRan == pc = "options"

\* the columns of the table whose kind is integer or float, in table order
NumericKindNames == ColumnNames(SelectSeq(df, LAMBDA c : c.kind \in {"integer", "float"}))

\* the names of the columns that are categorical by the rule of C8
CategoricalNames ==
    {df[k].name : k \in {h \in DOMAIN df :
        \/ df[h].kind \in {"text", "boolean", "category"}
        \/ /\ df[h].kind \in {"integer", "float"}
           /\ Cardinality(DistinctNonNull(h)) <= DefaultCatThreshold}}

\* C12: the option lists follow the eligibility table: scatter has x, y and
\* size = numeric; box, violin and bar have x = categorical, y = numeric and
\* size empty; histogram has y and size empty; color = all columns
C12_EligibilityTable ==
    (OptionsRan /\ plot_type \in PlotTypes) =>
        /\ color_opts = ColumnNames(df)
        /\ plot_type = "scatter" =>
               /\ x_opts = NumericKindNames
               /\ y_opts = NumericKindNames
               /\ size_opts = NumericKindNames
        /\ plot_type \in {"box", "violin", "bar"} =>
               /\ Range(x_opts) = CategoricalNames
               /\ y_opts = NumericKindNames
               /\ size_opts = <<>>
        /\ plot_type = "hist" => y_opts = <<>> /\ size_opts = <<>>

\* a box chart over a table with a numeric column of more distinct values than
\* the threshold next to a text column
C12_Witness ==
    /\ OptionsRan
    /\ plot_type = "box"
    /\ Len(df) = 2
    /\ df[1].kind = "float" /\ Cardinality(DistinctNonNull(1)) > DefaultCatThreshold
    /\ df[2].kind = "text"
    /\ x_opts = <<2>> /\ y_opts = <<1>> /\ size_opts = <<>> /\ color_opts = <<1, 2>>

\* C13: for the histogram the x options are the union of the numeric and the
\* categorical columns, each column exactly once
C13_HistogramUnionOnce ==
    (OptionsRan /\ plot_type = "hist") =>
        /\ Range(x_opts) = Range(NumericKindNames) \cup CategoricalNames
        /\ \A a, b \in DOMAIN x_opts : a /= b => x_opts[a] /= x_opts[b]

\* the columns eligible for x and for y by the eligibility table
XEligible ==
    IF plot_type = "scatter" THEN Range(NumericKindNames)
    ELSE IF plot_type = "hist" THEN Range(NumericKindNames) \cup CategoricalNames
    ELSE CategoricalNames

YEligible == IF plot_type = "hist" THEN {} ELSE Range(NumericKindNames)

\* the first column of the table among S, or none
FirstOf(S) == IF S = {} THEN NoValue ELSE CHOOSE c \in S : \A d \in S : c <= d

\* C14: once the options callback has run for the latest event, x and y are
\* the first eligible columns of the current kind (or none) and color and
\* size are unset, so that no ineligible selection stays
C14_DefaultSelection ==
    (OptionsRan /\ plot_type \in PlotTypes) =>
        /\ x_value = FirstOf(XEligible)
        /\ y_value = FirstOf(YEligible)
        /\ color_value = NoValue
        /\ size_value = NoValue

(***************************************************************************)
(* Properties of the figure                                                *)
(***************************************************************************)
Plotted == pc = "plotted"

Prompts == {"Select X and Y columns", "Select X column",
            "Select X (categorical) and Y (numeric)"}

\* a column the plot type requires is not selected
RequiredUnset ==
    IF plot_type = "hist" THEN x_value = NoValue
    ELSE x_value = NoValue \/ y_value = NoValue

\* C15: for a supported plot type and a table with rows, a figure built with
\* a required axis unset is a placeholder whose title prompts for the
\* columns, whatever color and size are, and the call does not fail
C15_PlaceholderPrompt ==
    (Plotted /\ plot_type \in PlotTypes /\ NRows(df) > 0 /\ RequiredUnset) =>
        /\ callback_outcome = "returned"
        /\ figure.title \in Prompts

\* C16: a plot type outside the supported set ends the figure callback and the
\* options callback in an error (UnsupportedKindError), never in a chart
C16_UnsupportedKindRaises ==
    ((Plotted \/ OptionsRan) /\ plot_type \notin PlotTypes) => callback_outcome = "raised"

\* C17: a figure whose x, y, color or size names a column that is not in the
\* table ends in an error (UnknownColumnError) the caller can tell from a figure
C17_UnknownColumnRaises ==
    (/\ Plotted
     /\ NRows(df) > 0
     /\ UnknownColumn(df, {x_value, y_value, color_value, size_value}))
        => callback_outcome = "raised"

(***************************************************************************)
(* Properties of make_scatter_with_dropdowns                               *)
(***************************************************************************)
Figured == pc = "figured" /\ scatter_outcome = "returned"

\* the sizes of the size button of the k-th column
SizesOf(k) == updatemenus.size[k].arr

\* the non-null cells of the k-th column as numbers
PresentValues(k) ==
    {CellValue(df[k].kind, df[k].vals[r]) : r \in {h \in DOMAIN df[k].vals : df[k].vals[h] /= NULL}}

\* m * 2^(e + K) for the float <<m, e>>
ScaleUp(v, K) == v[1] * Pow2(v[2] + K)

\* out is 5 + 20 * (v - lo) / (hi - lo) up to the rounding of the three
\* operations (2^(2 - Prec) of the largest size, 25)
NearReference(out, v, lo, hi) ==
    LET K == Prec + 3
        R == ScaleUp(hi, K) - ScaleUp(lo, K)
        ref == 5 * R + 20 * (ScaleUp(v, K) - ScaleUp(lo, K))
    IN  Abs(ScaleUp(out, Prec - 3) * R - Pow2(Prec - 3) * ref) * Pow2(Prec - 3)
            <= 100 * R * Pow2(Prec - 3)

\* C18: size_transform gives one size per row: the constant 10 for a column
\* that is not numeric (integer or float) and for a numeric column without a
\* range (max = min, or no value at all); else 5 + 20 * (v - min) / (max - min)
\* for each non-null v, which is 5 for the minimum, 25 for the maximum and lies
\* in [5, 25]
C18_SizeTransformReference ==
    Figured =>
        \A k \in DOMAIN df :
            LET out == SizesOf(k)
                S == PresentValues(k)
            IN  /\ Len(out) = NRows(df)
                /\ (df[k].kind \notin {"integer", "float"} \/ Cardinality(S) <= 1) =>
                       \A r \in DOMAIN out : out[r] = Ten
                /\ (df[k].kind \in {"integer", "float"} /\ Cardinality(S) > 1) =>
                       \A r \in DOMAIN out :
                           df[k].vals[r] /= NULL =>
                               LET v == CellValue(df[k].kind, df[k].vals[r])
                               IN  /\ v = FMin(S) => out[r] = Five
                                   /\ v = FMax(S) => out[r] = FromInt(25)
                                   /\ ~FLess(out[r], Five) /\ ~FLess(FromInt(25), out[r])
                                   /\ NearReference(out[r], v, FMin(S), FMax(S))

\* C19: the x, y and size alternatives of the scatter figure list exactly the
\* numeric columns and the color alternatives list all columns
C19_AlternativesEligible ==
    Figured =>
        LET labels(buttons) == [k \in DOMAIN buttons |-> buttons[k].label]
        IN  /\ labels(updatemenus.x) = NumericKindNames
            /\ labels(updatemenus.y) = NumericKindNames
            /\ labels(updatemenus.size) = NumericKindNames
            /\ labels(updatemenus.color) = ColumnNames(df)

(***************************************************************************)
(* Properties of eda_update_inspector_stats                                *)
(***************************************************************************)
Inspected == pc = "inspected" /\ inspector_column /= NoValue

\* the percentage taken of the non-null rows of the column
FrequencyRowsOfNonNull(col) ==
    FrequencyRows(col, Len(SelectSeq(col.vals, LAMBDA v : v /= NULL)))

RECURSIVE SumPercent(_, _)
SumPercent(rows, k) == IF k = 0 THEN 0 ELSE SumPercent(rows, k - 1) + rows[k].percent

\* C20: for a non-numeric column with nulls, every row of the frequency table
\* gives the count of its value and that count as a percentage of the
\* column's non-null rows, so that the percentages of all distinct values sum
\* to 100 (up to the rounding of each); the table shows at most 10 values,
\* those with the highest counts
C20_PercentOfNonNull ==
    (Inspected /\ inspector_stats.type = "Categorical") =>
        LET col == ColumnByName(df, inspector_column)
            rows == inspector_stats.rows
            present == Range(col.vals) \ {NULL}
            shown == {rows[k].val : k \in DOMAIN rows}
        IN  NULL \in Range(col.vals) =>
                /\ rows = FrequencyRowsOfNonNull(col)
                /\ Len(rows) <= TopN
                /\ Cardinality(shown) = Len(rows)
                /\ shown \subseteq present
                /\ Len(rows) < TopN => shown = present
                /\ \A v \in present \ shown : \A k \in DOMAIN rows :
                       CountOf(v, col.vals) <= rows[k].count
                /\ (shown = present /\ present /= {}) =>
                       Abs(SumPercent(rows, Len(rows)) - 1000) <= Len(rows)

(***************************************************************************)
(* Properties of the upload handlers                                       *)
(***************************************************************************)
\* the table of the last of the first k uploads that parsed, or the default
\* dataset
RECURSIVE LastParsed(_, _)
LastParsed(log, k) ==
    IF k = 0 THEN DefaultTable
    ELSE IF log[k].kind = "file" THEN log[k].table
    ELSE LastParsed(log, k - 1)

\* C21: after any sequence of uploads (no content, unparsable content,
\* parsable content) the stored table is the table of the most recent upload
\* that parsed, or the default dataset if none did
C21_StoreIsLastParsed == df = LastParsed(uploads, Len(uploads))

\* a parsed upload replaced the default dataset and a later upload that failed
\* or had no contents left it in place
C21_Witness ==
    /\ Len(uploads) >= 2
    /\ uploads[1].kind = "file"
    /\ uploads[Len(uploads)].kind \in {"bad", "none"}
    /\ df = uploads[1].table
    /\ df /= DefaultTable

(***************************************************************************)
(* Properties of the callbacks behind the stores                           *)
(***************************************************************************)
\* the role lists a are those of the table t
RolesOf(a, t) ==
    /\ a.numeric = infer_column_types(t, DefaultCatThreshold)[1]
    /\ a.categorical = infer_column_types(t, DefaultCatThreshold)[2]

Settled == \A cb \in CallbackNames : callbacks[cb].state = "idle"

RoleReaders == {"eda_update_inspector_stats", "eda_update_corr_heatmap"}

\* C22: the inspector-stats and correlation-heatmap callbacks only execute
\* with role lists classified from the table they execute with; once every
\* callback has returned the stored role lists are those of the stored table,
\* and the heatmap labels are the numeric columns of that table, as many and
\* in the order of the matrix rows
C22_RolesOfTheTableRead ==
    /\ \A cb \in RoleReaders :
           callbacks[cb].state = "executing" =>
               RolesOf(callbacks[cb].args, callbacks[cb].args.df)
    /\ Settled =>
           /\ RolesOf(Arguments, df)
           /\ corr_outcome = "returned"
           /\ heatmap_labels \in {<<>>, NumericColumns(df)}
           /\ heatmap_labels /= <<>> =>
                  /\ Len(corr_matrix) = Len(heatmap_labels)
                  /\ corr_matrix = create_correlation_matrix(df, method)

\* after a second table has replaced the first the heatmap callback executes
\* with the two numeric columns of the new table
C22_Witness ==
    /\ Len(uploads) = 2
    /\ uploads[1].kind = "file" /\ uploads[2].kind = "file"
    /\ uploads[1].table /= uploads[2].table
    /\ df = uploads[2].table
    /\ callbacks["eda_update_corr_heatmap"].state = "executing"
    /\ callbacks["eda_update_corr_heatmap"].args.df = df
    /\ Len(callbacks["eda_update_corr_heatmap"].args.numeric) = 2

(***************************************************************************)
(* Properties of the base trace of make_scatter_with_dropdowns             *)
(***************************************************************************)
\* the button marked active in the dropdown of a dimension
ActiveX == updatemenus.x[active.x]
ActiveY == updatemenus.y[active.y]
ActiveColor == updatemenus.color[active.color]
ActiveSize == updatemenus.size[active.size]

\* C23: in the figure of make_scatter_with_dropdowns the button marked active
\* in each of the x, y, color and size dropdowns carries what the base trace
\* shows for that dimension: the same values in the same representation, the
\* same axis title, the same color-scale setting and the same sizes
C23_ActiveMatchesBaseTrace ==
    Figured =>
        /\ ActiveX.arr = trace.x /\ ActiveX.relayout = trace.xtitle
        /\ ActiveY.arr = trace.y /\ ActiveY.relayout = trace.ytitle
        /\ ActiveColor.arr = trace.color /\ ActiveColor.extra = trace.colorscale
        /\ ActiveSize.arr = trace.size

====
